---- MODULE Spec2Model ----
(***************************************************************************)
(* A model of CryptoSignal (src/src/crypto_signal.py): the retrying        *)
(* fetcher get_historical_data with its backoff, the trend classifier      *)
(* check_trend, and run with the methods it calls.                         *)
(*                                                                         *)
(* Spec      : one call of get_historical_data; every provider request is  *)
(*             a step whose outcome the environment chooses.               *)
(* SpecTrend : check_trend applied to a frame drawn from bounded sets.     *)
(* SpecTrendPair : two calls of check_trend on frames with one tail.       *)
(* SpecRun   : one call of run: per configured symbol the fetch (by its    *)
(*             results), calculate_indicators, log_market_status,          *)
(*             check_trend and send_discord_message; the provider, the     *)
(*             indicator library and the webhook are the environment.      *)
(* SpecRunFair : SpecRun in which every step run can take is taken.        *)
(* SpecBands : calculate_indicators applied to a frame of alternating      *)
(*             closes, the averages and the bands computed exactly.        *)
(*                                                                         *)
(* Strings are sequences of one-character strings; a frame is a sequence   *)
(* of rows, a row a function from column names to values; a float is a     *)
(* record (a rational, an infinity or NaN) compared as IEEE compares.      *)
(* Time is in seconds; random.uniform is sampled at JitterSteps+1 points   *)
(* of its interval, both ends included.                                    *)
(***************************************************************************)
EXTENDS Integers, Sequences, FiniteSets, TLC

VARIABLES
    symbol,        \* the symbol get_historical_data was called with
    pc,            \* the fetch's position: idle, info, history, metadata, returned, raised
    retry_count,   \* the local retry_count
    yf_symbol,     \* the provider form of the symbol in this attempt
    result,        \* the frame returned (EMPTY until a frame is returned)
    iterations,    \* loop iterations entered
    nReq,          \* provider requests issued
    n429,          \* provider requests answered with HTTP 429
    nHist,         \* history requests issued
    lastReq,       \* the latest provider request and its outcome
    provided,      \* the latest table the provider's history request returned
    emptyAt,       \* nHist when the first empty table came back (0: none yet)
    nSleeps,       \* calls of time.sleep
    totalSlept,    \* seconds slept so far
    lastSleep,     \* seconds slept while handling the latest request (0: none)
    df,            \* the frame handed to check_trend
    sma_long,      \* self.sma_long
    sma_short,     \* self.sma_short
    min_price_change, \* self.min_price_change
    tpc,           \* check_trend's position: input, checked, checked2
    signal,        \* what check_trend returned
    texc,          \* the exception that left check_trend ("none" when it returned)
    readCols,      \* the columns check_trend read
    df2,           \* the frame of a second call of check_trend on the same object
    signal2,       \* what the second call returned
    config,        \* self.config: whether it has the key 'symbols', and the list
    idx,           \* the position in the list of the symbol run is processing
    rpc,           \* run's position: idle, start, fetch, indicators, status,
                   \* classify, notify, done, raised
    trace,         \* the steps run has taken, each with its symbol's position
    posts,         \* the webhook POSTs made, in order, with what they carried
    fetched        \* the frame the latest fetch handed to run

fetchVars == <<symbol, pc, retry_count, yf_symbol, result, iterations, nReq, n429,
               nHist, lastReq, provided, emptyAt, nSleeps, totalSlept, lastSleep>>
trendVars == <<df, sma_long, sma_short, min_price_change, tpc, signal, texc, readCols, df2, signal2>>
runVars == <<config, idx, rpc, trace, posts, fetched>>
vars == <<fetchVars, trendVars, runVars>>

----------------------------------------------------------------------------
(* Bounds of the model *)

\* rows of a provider table
MaxRows == 2
\* random.uniform(delay/2, delay) is sampled at JitterSteps + 1 points
JitterSteps == 2
\* bars of a frame handed to check_trend
MaxBars == 4

(* Program constants *)
\* the window the column names of the bands are written for
DefaultShort == 20
max_retries == 5
base_delay == 2

----------------------------------------------------------------------------
(* Strings *)

RECURSIVE ReplaceAll(_, _, _)
\* str.replace(old, new): every non-overlapping occurrence, left to right
ReplaceAll(s, old, new) ==
    IF Len(s) < Len(old) THEN s
    ELSE IF SubSeq(s, 1, Len(old)) = old
         THEN new \o ReplaceAll(SubSeq(s, Len(old) + 1, Len(s)), old, new)
         ELSE <<s[1]>> \o ReplaceAll(Tail(s), old, new)

\* str.endswith(suf)
EndsWith(s, suf) ==
    /\ Len(s) >= Len(suf)
    /\ SubSeq(s, Len(s) - Len(suf) + 1, Len(s)) = suf

RECURSIVE Split(_, _)
\* str.split(sep) for a one-character sep: the parts, in order
Split(s, sep) ==
    IF \A i \in 1..Len(s) : s[i] # sep THEN <<s>>
    ELSE LET k == CHOOSE i \in 1..Len(s) :
                      s[i] = sep /\ \A j \in 1..(i - 1) : s[j] # sep
         IN  <<SubSeq(s, 1, k - 1)>> \o Split(SubSeq(s, k + 1, Len(s)), sep)

ToYfSymbol_SlashOnly(s) ==
    IF EndsWith(s, <<"/", "U", "S", "D", "T">>) \/ EndsWith(s, <<"/", "U", "S", "D">>)
    THEN ReplaceAll(s, <<"/">>, <<"-">>)
    ELSE s

\* the symbol conversion at the head of an attempt, before the split
ToYfSymbol(s) ==
    IF EndsWith(s, <<"/", "U", "S", "D", "T">>)
    THEN ReplaceAll(s, <<"/", "U", "S", "D", "T">>, <<"-", "U", "S", "D">>)
    ELSE IF EndsWith(s, <<"/", "U", "S", "D">>)
         THEN ReplaceAll(s, <<"/">>, <<"-">>)
         ELSE s

SplitRaises_TooFewOnly(yf) ==
    /\ \E i \in 1..Len(yf) : yf[i] = "-"
    /\ Len(Split(yf, "-")) < 2

\* base, quote = yf_symbol.split('-') raises ValueError unless there are two parts
SplitRaises(yf) ==
    /\ \E i \in 1..Len(yf) : yf[i] = "-"
    /\ Len(Split(yf, "-")) # 2

\* yf_symbol after  base, quote = yf_symbol.split('-'); f"{base}-{quote}"
Normalised(yf) ==
    IF \E i \in 1..Len(yf) : yf[i] = "-"
    THEN LET parts == Split(yf, "-") IN parts[1] \o <<"-">> \o parts[2]
    ELSE yf

\* the symbols a run may be configured with
Symbols ==
    { <<"B", "T", "C", "/", "U", "S", "D", "T">>,
      <<"E", "T", "H", "/", "U", "S", "D">>,
      <<"A", "A", "P", "L">>,
      <<"B", "T", "C", "-", "U", "S", "D">>,
      <<"A", "-", "B", "/", "U", "S", "D">>,
      <<"A", "/", "U", "S", "D", "T", "/", "U", "S", "D", "T">> }

----------------------------------------------------------------------------
(* Frames *)

\* pd.DataFrame()
EMPTY == << >>

IsEmpty_OnlyNone(frame) == FALSE

\* df.empty
IsEmpty(frame) == Len(frame) = 0

\* one row of the provider's table, as yfinance labels it
ProviderBar(c) ==
    [Open |-> c - 1, High |-> c + 2, Low |-> c - 2, Close |-> c,
     Volume |-> 10 * c, Dividends |-> 0]

ProviderCloses == {200, 206}

RECURSIVE SeqsUpTo(_, _)
SeqsUpTo(S, n) ==
    IF n = 0 THEN { << >> }
    ELSE LET shorter == SeqsUpTo(S, n - 1)
         IN  shorter \cup { Append(s, x) : s \in { t \in shorter : Len(t) = n - 1 }, x \in S }

\* what ticker.history may return: the empty table and the tables of up to MaxRows rows
Tables == SeqsUpTo({ ProviderBar(c) : c \in ProviderCloses }, MaxRows)

RenameColumn_KeepsClose(c) ==
    CASE c = "Open" -> "open"
      [] c = "High" -> "high"
      [] c = "Low" -> "low"
      [] c = "Volume" -> "volume"
      [] OTHER -> c

\* the mapping of df.rename(columns={...})
RenameColumn(c) ==
    CASE c = "Open" -> "open"
      [] c = "High" -> "high"
      [] c = "Low" -> "low"
      [] c = "Close" -> "close"
      [] c = "Volume" -> "volume"
      [] OTHER -> c

\* df.rename(columns=...): the same rows, each column under its new label
Rename(frame) ==
    [i \in 1..Len(frame) |->
        [c2 \in { RenameColumn(c) : c \in DOMAIN frame[i] } |->
            frame[i][CHOOSE c \in DOMAIN frame[i] : RenameColumn(c) = c2]]]

----------------------------------------------------------------------------
(* Backoff *)

RECURSIVE Pow2(_)
Pow2(n) == IF n = 0 THEN 1 ELSE 2 * Pow2(n - 1)

Backoff_FromZero(rc) == base_delay * Pow2(rc - 1)

Backoff_Doubled(rc) == base_delay * Pow2(rc + 1)

\* delay = self.base_delay * (2 ** retry_count), retry_count already incremented
Backoff(rc) == base_delay * Pow2(rc)

Jitter_UpToDouble(delay) ==
    { delay + (k * delay) \div JitterSteps : k \in 0..JitterSteps }

\* the values random.uniform(delay/2, delay) is sampled at
Jitter(delay) ==
    { (delay \div 2) + (k * (delay - (delay \div 2))) \div JitterSteps : k \in 0..JitterSteps }

LoopCond_Inclusive(rc) == rc <= max_retries

\* while retry_count < self.max_retries
LoopCond(rc) == rc < max_retries

----------------------------------------------------------------------------
(* get_historical_data *)

InfoOutcomes == {"ok", "http429", "httpOther", "httpNoResponse", "error"}
ErrorOutcomes == {"http429", "httpOther", "httpNoResponse", "error"}
NonRateLimitErrors == {"httpOther", "httpNoResponse", "error"}

IsRateLimit_AnyHttp(o) == o \in {"http429", "httpOther"}

\* e.response.status_code == 429 in a handler of requests.exceptions.HTTPError
IsRateLimit(o) == o = "http429"

NoRequest == [kind |-> "none", outcome |-> "none"]

Req(kind, outcome) == [kind |-> kind, outcome |-> outcome]

\* the request and what it is counted as
Issue(kind, outcome) ==
    /\ nReq' = nReq + 1
    /\ n429' = IF outcome = "http429" THEN n429 + 1 ELSE n429
    /\ nHist' = IF kind = "history" THEN nHist + 1 ELSE nHist
    /\ lastReq' = Req(kind, outcome)

\* the head of the while loop with retry_count = rc: leave the loop and return
\* EMPTY, or enter the body, convert the symbol and reach the ticker-info lookup
\* (a ValueError of the split is caught by the outer except: EMPTY)
LoopHead(rc, sym) ==
    IF ~LoopCond(rc)
    THEN /\ pc' = "returned"
         /\ result' = EMPTY
         /\ UNCHANGED <<iterations, yf_symbol>>
    ELSE /\ iterations' = iterations + 1
         /\ IF SplitRaises(ToYfSymbol(sym))
            THEN /\ pc' = "returned"
                 /\ result' = EMPTY
                 /\ yf_symbol' = ToYfSymbol(sym)
            ELSE /\ pc' = "info"
                 /\ result' = result
                 /\ yf_symbol' = Normalised(ToYfSymbol(sym))

\* return pd.DataFrame()
ReturnEmpty ==
    /\ pc' = "returned"
    /\ result' = EMPTY
    /\ UNCHANGED <<retry_count, yf_symbol, iterations>>

NoSleep == /\ lastSleep' = 0
           /\ UNCHANGED <<nSleeps, totalSlept>>

RateLimited_NoSleepAtLimit ==
    /\ retry_count' = retry_count + 1
    /\ IF retry_count' < max_retries
       THEN \E jitter \in Jitter(Backoff(retry_count')) :
               /\ lastSleep' = jitter
               /\ totalSlept' = totalSlept + jitter
               /\ nSleeps' = nSleeps + 1
       ELSE NoSleep
    /\ LoopHead(retry_count', symbol)

\* a 429 handler: retry_count += 1, the backoff sleep, continue
RateLimited ==
    /\ retry_count' = retry_count + 1
    /\ \E jitter \in Jitter(Backoff(retry_count')) :
          /\ lastSleep' = jitter
          /\ totalSlept' = totalSlept + jitter
          /\ nSleeps' = nSleeps + 1
    /\ LoopHead(retry_count', symbol)

\* get_historical_data(symbol) is called
Call ==
    /\ pc = "idle"
    /\ \E s \in Symbols : symbol' = s /\ LoopHead(0, s)
    /\ retry_count' = 0
    /\ UNCHANGED <<nReq, n429, nHist, lastReq, provided, emptyAt,
                   nSleeps, totalSlept, lastSleep>>
    /\ UNCHANGED <<trendVars, runVars>>

\* info = ticker.info and its handlers
InfoLookup ==
    /\ pc = "info"
    /\ \E o \in InfoOutcomes :
          /\ Issue("info", o)
          /\ CASE IsRateLimit(o) -> RateLimited
               [] o = "httpNoResponse" -> ReturnEmpty /\ NoSleep
               [] OTHER -> /\ pc' = "history"
                           /\ NoSleep
                           /\ UNCHANGED <<retry_count, yf_symbol, iterations, result>>
    /\ UNCHANGED <<symbol, provided, emptyAt>>
    /\ UNCHANGED <<trendVars, runVars>>

\* df = ticker.history(...) and what follows it in the attempt
HistoryRequest ==
    /\ pc = "history"
    /\ \/ \E t \in Tables :
             /\ Issue("history", "table")
             /\ provided' = t
             /\ NoSleep
             /\ IF IsEmpty(t)
                THEN /\ pc' = "metadata"
                     /\ emptyAt' = IF emptyAt = 0 THEN nHist' ELSE emptyAt
                     /\ UNCHANGED <<retry_count, yf_symbol, iterations, result>>
                ELSE /\ pc' = "returned"
                     /\ result' = Rename(t)
                     /\ UNCHANGED <<retry_count, yf_symbol, iterations, emptyAt>>
       \/ \E o \in ErrorOutcomes :
             /\ Issue("history", o)
             /\ UNCHANGED <<provided, emptyAt>>
             /\ CASE IsRateLimit(o) -> RateLimited
                  [] o = "httpNoResponse" ->
                        /\ pc' = "raised"
                        /\ NoSleep
                        /\ UNCHANGED <<retry_count, yf_symbol, iterations, result>>
                  [] OTHER -> ReturnEmpty /\ NoSleep
    /\ UNCHANGED symbol
    /\ UNCHANGED <<trendVars, runVars>>

\* metadata = ticker.get_history_metadata() and its handlers
MetadataLookup ==
    /\ pc = "metadata"
    /\ \E o \in InfoOutcomes :
          /\ Issue("metadata", o)
          /\ CASE IsRateLimit(o) -> RateLimited
               [] OTHER -> ReturnEmpty /\ NoSleep
    /\ UNCHANGED <<symbol, provided, emptyAt>>
    /\ UNCHANGED <<trendVars, runVars>>

FetchInit ==
    /\ symbol = << >>
    /\ pc = "idle"
    /\ retry_count = 0
    /\ yf_symbol = << >>
    /\ result = EMPTY
    /\ iterations = 0
    /\ nReq = 0
    /\ n429 = 0
    /\ nHist = 0
    /\ lastReq = NoRequest
    /\ provided = EMPTY
    /\ emptyAt = 0
    /\ nSleeps = 0
    /\ totalSlept = 0
    /\ lastSleep = 0

TrendIdle ==
    /\ df = << >>
    /\ sma_long = 0
    /\ sma_short = 0
    /\ min_price_change = 0
    /\ tpc = "input"
    /\ signal = "none"
    /\ texc = "none"
    /\ readCols = {}
    /\ df2 = << >>
    /\ signal2 = "none"

RunIdle ==
    /\ config = [present |-> FALSE, symbols |-> << >>]
    /\ idx = 0
    /\ rpc = "idle"
    /\ trace = << >>
    /\ posts = << >>
    /\ fetched = << >>

Init == FetchInit /\ TrendIdle /\ RunIdle

Next == Call \/ InfoLookup \/ HistoryRequest \/ MetadataLookup

Spec == Init /\ [][Next]_vars

----------------------------------------------------------------------------
(* Floats: a rational n/d with d > 0, an infinity (n its sign) or NaN *)

Num(v) == [k |-> "num", n |-> v, d |-> 1]
NaN == [k |-> "nan", n |-> 0, d |-> 1]
Inf(sign) == [k |-> "inf", n |-> sign, d |-> 1]

\* None: what an indicator column holds when the library returned nothing for it
None == [k |-> "none", n |-> 0, d |-> 1]

Sign(x) == IF x > 0 THEN 1 ELSE IF x < 0 THEN -1 ELSE 0

\* a - b
FSub(a, b) ==
    IF a.k = "nan" \/ b.k = "nan" THEN NaN
    ELSE IF a.k = "inf" THEN (IF b.k = "inf" /\ b.n = a.n THEN NaN ELSE a)
    ELSE IF b.k = "inf" THEN Inf(-b.n)
    ELSE [k |-> "num", n |-> a.n * b.d - b.n * a.d, d |-> a.d * b.d]

\* a / b as numpy divides: x/0 is an infinity of x's sign, 0/0 is NaN
FDiv(a, b) ==
    IF a.k = "nan" \/ b.k = "nan" THEN NaN
    ELSE IF a.k = "inf" THEN (IF b.k = "inf" THEN NaN
                              ELSE Inf(a.n * (IF b.n < 0 THEN -1 ELSE 1)))
    ELSE IF b.k = "inf" THEN Num(0)
    ELSE IF b.n = 0 THEN (IF a.n = 0 THEN NaN ELSE Inf(Sign(a.n)))
    ELSE [k |-> "num", n |-> a.n * b.d * Sign(b.n), d |-> a.d * b.n * Sign(b.n)]

\* a * b
FMul(a, b) ==
    IF a.k = "nan" \/ b.k = "nan" THEN NaN
    ELSE IF a.k = "inf" \/ b.k = "inf"
         THEN (IF Sign(a.n) * Sign(b.n) = 0 THEN NaN ELSE Inf(Sign(a.n) * Sign(b.n)))
    ELSE [k |-> "num", n |-> a.n * b.n, d |-> a.d * b.d]

\* -a
FNeg(a) == [a EXCEPT !.n = -a.n]

FLt_NaNSmallest(a, b) ==
    IF a.k = "none" \/ b.k = "none" THEN FALSE
    ELSE IF b.k = "nan" THEN FALSE
    ELSE IF a.k = "nan" THEN TRUE
    ELSE IF a.k = "inf" THEN a.n < 0 /\ ~(b.k = "inf" /\ b.n < 0)
    ELSE IF b.k = "inf" THEN b.n > 0
    ELSE a.n * b.d < b.n * a.d

\* a < b: false whenever either is NaN (a comparison with None raises, see
\* CompareRaises, and yields no truth value)
FLt(a, b) ==
    IF a.k \in {"nan", "none"} \/ b.k \in {"nan", "none"} THEN FALSE
    ELSE IF a.k = "inf" THEN a.n < 0 /\ ~(b.k = "inf" /\ b.n < 0)
    ELSE IF b.k = "inf" THEN b.n > 0
    ELSE a.n * b.d < b.n * a.d

\* a > b
FGt(a, b) == FLt(b, a)

----------------------------------------------------------------------------
(* check_trend *)

\* df[col].iloc[-k] raises: KeyError (no such column) or IndexError (too few rows)
ReadRaises(frame, col, k) ==
    \/ Len(frame) = 0
    \/ col \notin DOMAIN frame[Len(frame)]
    \/ Len(frame) < k

\* df[col].iloc[-k]
Iloc(frame, col, k) == frame[Len(frame) - k + 1][col]

\* the columns check_trend reads at the last bar, in the order it reads them
TrendColumns == <<"close", "sma_20", "sma_50", "rsi", "macd", "macd_signal">>

TooShort_OffByOne(frame, long) == Len(frame) < long - 1

\* len(df) < self.sma_long
TooShort(frame, long) == Len(frame) < long

PriceChange_FromFirst(frame) ==
    FMul(FDiv(FSub(Iloc(frame, "close", 1), frame[1].close), frame[1].close),
         Num(100))

\* price_change = ((current_close - df['close'].iloc[-2]) / df['close'].iloc[-2]) * 100
PriceChange(frame) ==
    FMul(FDiv(FSub(Iloc(frame, "close", 1), Iloc(frame, "close", 2)),
              Iloc(frame, "close", 2)),
         Num(100))

\* a >= b
FGe(a, b) == a.k \in {"num", "inf"} /\ b.k \in {"num", "inf"} /\ ~FLt(a, b)

Bullish_NotStrict(frame, mpc) ==
    /\ FGe(Iloc(frame, "close", 1), Iloc(frame, "sma_20", 1))
    /\ FGe(Iloc(frame, "sma_20", 1), Iloc(frame, "sma_50", 1))
    /\ FGe(Iloc(frame, "rsi", 1), Num(50))
    /\ FGe(Iloc(frame, "macd", 1), Iloc(frame, "macd_signal", 1))
    /\ FGe(PriceChange(frame), mpc)

Bullish_NoPriceChange(frame, mpc) ==
    /\ FGt(Iloc(frame, "close", 1), Iloc(frame, "sma_20", 1))
    /\ FGt(Iloc(frame, "sma_20", 1), Iloc(frame, "sma_50", 1))
    /\ FGt(Iloc(frame, "rsi", 1), Num(50))
    /\ FGt(Iloc(frame, "macd", 1), Iloc(frame, "macd_signal", 1))

\* the condition of the if: the bullish comparisons
Bullish(frame, mpc) ==
    /\ FGt(Iloc(frame, "close", 1), Iloc(frame, "sma_20", 1))
    /\ FGt(Iloc(frame, "sma_20", 1), Iloc(frame, "sma_50", 1))
    /\ FGt(Iloc(frame, "rsi", 1), Num(50))
    /\ FGt(Iloc(frame, "macd", 1), Iloc(frame, "macd_signal", 1))
    /\ FGt(PriceChange(frame), mpc)

\* the condition of the elif: the bearish comparisons
Bearish(frame, mpc) ==
    /\ FLt(Iloc(frame, "close", 1), Iloc(frame, "sma_20", 1))
    /\ FLt(Iloc(frame, "sma_20", 1), Iloc(frame, "sma_50", 1))
    /\ FLt(Iloc(frame, "rsi", 1), Num(50))
    /\ FLt(Iloc(frame, "macd", 1), Iloc(frame, "macd_signal", 1))
    /\ FLt(PriceChange(frame), FNeg(mpc))

\* the columns read before the first read that raises (all of them when none does)
ColumnsRead(frame) ==
    { TrendColumns[i] : i \in { j \in 1..Len(TrendColumns) :
          \A h \in 1..j : ~ReadRaises(frame, TrendColumns[h], 1) } }

\* the operands of the comparisons of the if (up = TRUE) or of the elif, in the
\* order Python evaluates them
Comparisons(frame, mpc, up) ==
    << <<Iloc(frame, "close", 1), Iloc(frame, "sma_20", 1)>>,
       <<Iloc(frame, "sma_20", 1), Iloc(frame, "sma_50", 1)>>,
       <<Iloc(frame, "rsi", 1), Num(50)>>,
       <<Iloc(frame, "macd", 1), Iloc(frame, "macd_signal", 1)>>,
       <<PriceChange(frame), IF up THEN mpc ELSE FNeg(mpc)>> >>

\* a chain of "and"ed comparisons raises TypeError at the first comparison that
\* has a None operand, unless an earlier comparison was false
ChainRaises(ops, up) ==
    \E j \in 1..Len(ops) :
        /\ ops[j][1].k = "none" \/ ops[j][2].k = "none"
        /\ \A h \in 1..(j - 1) :
               IF up THEN FGt(ops[h][1], ops[h][2]) ELSE FLt(ops[h][1], ops[h][2])

\* the if or, when the if is false, the elif raises TypeError
CompareRaises(frame, mpc) ==
    \/ \E ops \in {Comparisons(frame, mpc, TRUE)} : ChainRaises(ops, TRUE)
    \/ /\ ~Bullish(frame, mpc)
       /\ \E ops \in {Comparisons(frame, mpc, FALSE)} : ChainRaises(ops, FALSE)

\* the body of the try: the signal returned, or the exception raised, and the
\* columns read on the way
TrendBody(frame, long, mpc) ==
    IF TooShort(frame, long)
    THEN [signal |-> "neutral", read |-> {}, exc |-> "none"]
    ELSE IF \E i \in 1..Len(TrendColumns) : ReadRaises(frame, TrendColumns[i], 1)
    THEN [signal |-> "none", read |-> ColumnsRead(frame), exc |-> "KeyError"]
    ELSE IF ReadRaises(frame, "close", 2)
    THEN [signal |-> "none", read |-> ColumnsRead(frame), exc |-> "IndexError"]
    ELSE IF CompareRaises(frame, mpc)
    THEN [signal |-> "none", read |-> ColumnsRead(frame), exc |-> "TypeError"]
    ELSE [signal |-> IF Bullish(frame, mpc) THEN "bullish"
                     ELSE IF Bearish(frame, mpc) THEN "bearish"
                     ELSE "neutral",
          read |-> ColumnsRead(frame), exc |-> "none"]

ExceptNeutral_KeyErrorOnly(r) ==
    IF r.exc = "KeyError" THEN [r EXCEPT !.signal = "neutral", !.exc = "none"] ELSE r

\* except Exception: return 'neutral'
ExceptNeutral(r) ==
    IF r.exc # "none" THEN [r EXCEPT !.signal = "neutral", !.exc = "none"] ELSE r

\* check_trend(df): the signal returned, the columns read on the way and the
\* exception that leaves the method ("none" when it returns)
CheckTrend(frame, long, mpc) ==
    CHOOSE res \in { ExceptNeutral(r) : r \in {TrendBody(frame, long, mpc)} } : TRUE

(* The frames check_trend is applied to *)

LastCloses == {97, 98, 100, 102, 103}
PrevCloses == {0, 100, 101, 106}
ShortSmas == {NaN, Num(97), Num(98), Num(102), Num(103)}
LongSmas == {NaN, Num(98), Num(99), Num(101), Num(102)}
Rsis == {NaN, Num(49), Num(50), Num(51)}
Macds == {NaN, Num(0), Num(1)}
LongPeriods == {1, 2, 3}
MinPriceChanges == {2, 3}

\* a bar before the last one: its close, the indicators not read there
PrevBar(c) ==
    [close |-> Num(c), sma_20 |-> NaN, sma_50 |-> NaN, rsi |-> NaN,
     macd |-> NaN, macd_signal |-> NaN]

\* a frame of n bars ending with the bars prev, last
FrameOf(n, prev, last) == [i \in 1..n |-> IF i = n THEN last ELSE prev]

\* two last bars all of whose comparisons point one way
CornerBars ==
    { [close |-> Num(103), sma_20 |-> Num(102), sma_50 |-> Num(101), rsi |-> Num(51),
       macd |-> Num(1), macd_signal |-> Num(0)],
      [close |-> Num(97), sma_20 |-> Num(98), sma_50 |-> Num(99), rsi |-> Num(49),
       macd |-> Num(0), macd_signal |-> Num(1)] }

\* the frame without the column col
DropColumn(frame, col) ==
    [i \in 1..Len(frame) |-> [c \in (DOMAIN frame[i]) \ {col} |-> frame[i][c]]]

\* the frame whose column col holds None
NoneColumn(frame, col) ==
    [i \in 1..Len(frame) |-> [frame[i] EXCEPT ![col] = None]]

InitTrend ==
    /\ FetchInit
    /\ tpc = "input"
    /\ signal = "none"
    /\ texc = "none"
    /\ readCols = {}
    /\ sma_long \in LongPeriods
    /\ sma_short = DefaultShort
    /\ min_price_change \in MinPriceChanges
    /\ \/ \E n \in 0..MaxBars, c \in LastCloses, p \in PrevCloses, s20 \in ShortSmas,
             s50 \in LongSmas, r \in Rsis, m \in Macds, ms \in Macds :
             df = FrameOf(n, PrevBar(p),
                          [close |-> Num(c), sma_20 |-> s20, sma_50 |-> s50, rsi |-> r,
                           macd |-> m, macd_signal |-> ms])
       \* a frame that lacks one column
       \/ \E n \in 0..MaxBars, p \in PrevCloses, b \in CornerBars,
             i \in 1..Len(TrendColumns) :
             df = DropColumn(FrameOf(n, PrevBar(p), b), TrendColumns[i])
       \* a frame one of whose indicator columns holds None
       \/ \E n \in 0..MaxBars, p \in PrevCloses, b \in CornerBars,
             i \in 2..Len(TrendColumns) :
             df = NoneColumn(FrameOf(n, PrevBar(p), b), TrendColumns[i])
    /\ df2 = << >>
    /\ signal2 = "none"
    /\ RunIdle

\* signal = self.check_trend(df)
CheckTrendCall ==
    /\ tpc = "input"
    /\ tpc' = "checked"
    /\ \E r \in {CheckTrend(df, sma_long, Num(min_price_change))} :
          /\ signal' = r.signal
          /\ texc' = r.exc
          /\ readCols' = r.read
    /\ UNCHANGED <<df, sma_long, sma_short, min_price_change, df2, signal2>>
    /\ UNCHANGED <<fetchVars, runVars>>

NextTrend == CheckTrendCall

SpecTrend == InitTrend /\ [][NextTrend]_vars

(* Two calls of check_trend on the same object, on frames that share their tail *)

EarlyCloses == {100, 106}

\* the last bars of the two frames
PairLastBars ==
    { [close |-> Num(c), sma_20 |-> s20, sma_50 |-> s50, rsi |-> Num(r),
       macd |-> Num(m), macd_signal |-> Num(ms)] :
        c \in {97, 103}, s20 \in {NaN, Num(98), Num(102)},
        s50 \in {NaN, Num(99), Num(101)}, r \in {49, 51}, m \in {0, 1}, ms \in {0, 1} }

\* a frame of n bars ending with the bars prev, last; the bars before are early
FrameWith(n, early, prev, last) ==
    [i \in 1..n |-> IF i = n THEN last ELSE IF i = n - 1 THEN prev ELSE early]

InitPair ==
    /\ FetchInit
    /\ tpc = "input"
    /\ signal = "none"
    /\ signal2 = "none"
    /\ texc = "none"
    /\ readCols = {}
    /\ sma_long \in LongPeriods
    /\ sma_short = DefaultShort
    /\ min_price_change \in MinPriceChanges
    /\ \E n1 \in 2..MaxBars, n2 \in 2..MaxBars, e1 \in EarlyCloses, e2 \in EarlyCloses,
          p \in PrevCloses, last \in PairLastBars :
          /\ df = FrameWith(n1, PrevBar(e1), PrevBar(p), last)
          /\ df2 = FrameWith(n2, PrevBar(e2), PrevBar(p), last)
    /\ RunIdle

\* signal = self.check_trend(df2), after the first call has returned
CheckTrendAgain ==
    /\ tpc = "checked"
    /\ tpc' = "checked2"
    /\ \E r \in {CheckTrend(df2, sma_long, Num(min_price_change))} :
          /\ signal2' = r.signal
          /\ texc' = r.exc
          /\ readCols' = r.read
    /\ UNCHANGED <<df, df2, sma_long, sma_short, min_price_change, signal>>
    /\ UNCHANGED <<fetchVars, runVars>>

NextPair == CheckTrendCall \/ CheckTrendAgain

SpecTrendPair == InitPair /\ [][NextPair]_vars

----------------------------------------------------------------------------
(* run: one pass over the configured symbols *)

\* the classes of Exception the methods meet
Exceptions ==
    {"KeyError", "IndexError", "TypeError", "AttributeError", "LibraryError",
     "HTTPError", "ConnectionError"}

\* the table ticker.history returned, its values as the floats pandas holds
Floats(frame) ==
    [i \in 1..Len(frame) |-> [c \in DOMAIN frame[i] |-> Num(frame[i][c])]]

\* what get_historical_data(sym) hands to run: a frame of renamed rows, the
\* EMPTY frame, or the exception that leaves it when a history request fails
\* with an HTTPError that carries no response
FetchResults(sym) ==
    IF SplitRaises(ToYfSymbol(sym))
    THEN { [kind |-> "empty", frame |-> EMPTY] }
    ELSE { [kind |-> "frame", frame |-> Floats(Rename(t))] : t \in Tables \ {EMPTY} }
         \cup { [kind |-> "empty", frame |-> EMPTY],
                [kind |-> "raised", frame |-> EMPTY] }

(* calculate_indicators *)

\* the library calls of calculate_indicators, in order, and the columns each fills
IndicatorCalls == <<"sma", "sma", "rsi", "macd", "bbands">>
CallColumns(k) ==
    CASE k = 1 -> {"sma_20"}
      [] k = 2 -> {"sma_50"}
      [] k = 3 -> {"rsi"}
      [] k = 4 -> {"macd", "macd_signal", "macd_hist"}
      [] k = 5 -> {"bb_upper", "bb_middle", "bb_lower"}

\* what a library call may do: return its series, return None, raise
CallOutcomes == {"series", "none", "raise"}

\* the outcomes of the calls of one calculation; the calls after one that
\* raises are not made, and are written as raising too
IndicatorOutcomes ==
    { o \in [1..Len(IndicatorCalls) -> CallOutcomes] :
        \A k \in 1..(Len(IndicatorCalls) - 1) : o[k] = "raise" => o[k + 1] = "raise" }

\* the columns check_trend compares at the last bar, the close apart
TrendIndicators == {"sma_20", "sma_50", "rsi", "macd", "macd_signal"}

\* what the library computes: a market that points up, one that points down,
\* or one that points up with the series of one column undefined at the last bar
Markets == {"up", "down"} \cup TrendIndicators

\* the latest values the library computes for a market
IndicatorValues(t) ==
    LET up == [sma_20 |-> Num(204), sma_50 |-> Num(202), rsi |-> Num(51),
               macd |-> Num(1), macd_signal |-> Num(0), macd_hist |-> Num(1),
               bb_upper |-> Num(210), bb_middle |-> Num(204), bb_lower |-> Num(198)]
    IN  IF t = "up" THEN up
        ELSE IF t = "down"
        THEN [sma_20 |-> Num(202), sma_50 |-> Num(204), rsi |-> Num(49), macd |-> Num(0),
              macd_signal |-> Num(1), macd_hist |-> Num(-1), bb_upper |-> Num(210),
              bb_middle |-> Num(202), bb_lower |-> Num(194)]
        ELSE [up EXCEPT ![t] = NaN]

\* a series of n values: undefined during warm-up, v at the last bar
Series(n, v) == [i \in 1..n |-> IF i = n THEN v ELSE NaN]

AddColumns_Reindexed(frame, f) ==
    [i \in 1..Len(frame) |->
        [c \in (DOMAIN frame[i]) \cup (DOMAIN f) |->
            IF c \in DOMAIN f THEN f[c][i] ELSE frame[Len(frame) + 1 - i][c]]]

\* df[c] = f[c] for every column c of f
AddColumns(frame, f) ==
    [i \in 1..Len(frame) |->
        [c \in (DOMAIN frame[i]) \cup (DOMAIN f) |->
            IF c \in DOMAIN f THEN f[c][i] ELSE frame[i][c]]]

\* the columns call k assigns: the library's series; or, when it returned
\* None, None itself for sma and rsi and np.nan for macd and bbands
Assigned(frame, k, out, t) ==
    [c \in CallColumns(k) |->
        IF out = "series" THEN Series(Len(frame), IndicatorValues(t)[c])
        ELSE [i \in 1..Len(frame) |-> IF k <= 3 THEN None ELSE NaN]]

RECURSIVE IndicatorsBody(_, _, _, _)
\* the body of the try from call k on: the frame so far and the exception raised
IndicatorsBody(frame, outs, t, k) ==
    IF k > Len(IndicatorCalls) THEN [frame |-> frame, exc |-> "none"]
    ELSE IF ReadRaises(frame, "close", 1) THEN [frame |-> frame, exc |-> "KeyError"]
    ELSE IF outs[k] = "raise" THEN [frame |-> frame, exc |-> "LibraryError"]
    ELSE CHOOSE r \in { IndicatorsBody(next, outs, t, k + 1) :
                         next \in {AddColumns(frame, Assigned(frame, k, outs[k], t))} } :
             TRUE

IndicatorsExcept_KeyErrorOnly(e) == e = "KeyError"

\* except Exception, in calculate_indicators
IndicatorsExcept(e) == e \in Exceptions

\* calculate_indicators(df): the frame returned, the exception that leaves the
\* method and the exception its handler caught
CalculateIndicators(frame, outs, t) ==
    CHOOSE res \in { IF IndicatorsExcept(r.exc)
                     THEN [frame |-> r.frame, exc |-> "none", caught |-> r.exc]
                     ELSE [frame |-> r.frame, exc |-> r.exc, caught |-> "none"] :
                     r \in {IndicatorsBody(frame, outs, t, 1)} } : TRUE

(* the webhook *)

\* requests.post returns a success, returns an error status that
\* raise_for_status turns into an HTTPError, or raises
WebhookOutcomes == {"ok", "httpError", "connectionError"}

PostException(out) ==
    CASE out = "ok" -> "none"
      [] out = "httpError" -> "HTTPError"
      [] out = "connectionError" -> "ConnectionError"

(* log_market_status *)

\* the columns log_market_status reads at the last bar, in order
StatusColumns ==
    <<"close", "sma_20", "sma_50", "rsi", "macd", "macd_signal", "bb_upper", "bb_lower">>

\* the exception raised before the POST: a column is missing, there is no
\* previous bar, or a value that is None meets the format ":.2f"
StatusBodyException(frame) ==
    IF \E i \in 1..Len(StatusColumns) : ReadRaises(frame, StatusColumns[i], 1)
    THEN "KeyError"
    ELSE IF ReadRaises(frame, "close", 2) THEN "IndexError"
    ELSE IF \E i \in 1..Len(StatusColumns) : Iloc(frame, StatusColumns[i], 1).k = "none"
    THEN "TypeError"
    ELSE "none"

\* except Exception, in log_market_status
StatusExcept(e) == e \in Exceptions

\* log_market_status(df, symbol) when the webhook answers out: the POSTs made
\* and the exception that leaves the method
LogMarketStatus(frame, sym, i, out) ==
    LET before == StatusBodyException(frame)
        made == IF before = "none"
                THEN << [i |-> i, kind |-> "status", symbol |-> sym, signal_type |-> "none",
                         price |-> Iloc(frame, "close", 1), change |-> PriceChange(frame),
                         outcome |-> out] >>
                ELSE << >>
        exc == IF before = "none" THEN PostException(out) ELSE before
    IN  [posts |-> made, exc |-> IF StatusExcept(exc) THEN "none" ELSE exc]

(* send_discord_message *)

SendRetries_Once(out) == IF out = "ok" THEN 0 ELSE 1

\* the POSTs send_discord_message makes after a first one that failed
SendRetries(out) == 0

\* except Exception, in send_discord_message
SendExcept(e) == e \in Exceptions

\* send_discord_message(symbol, signal_type, price, change) when the webhook
\* answers out: the POSTs made and the exception that leaves the method
SendDiscordMessage(sym, i, signal_type, price, change, out) ==
    LET post == [i |-> i, kind |-> "alert", symbol |-> sym, signal_type |-> signal_type,
                 price |-> price, change |-> change, outcome |-> out]
    IN  [posts |-> [j \in 1..(1 + SendRetries(out)) |-> post],
         exc |-> IF SendExcept(PostException(out)) THEN "none" ELSE PostException(out)]

(* run *)

\* self.config: with or without the key 'symbols', and the list under it
Configs ==
    { [present |-> FALSE, symbols |-> << >>],
      [present |-> TRUE, symbols |-> << >>],
      [present |-> TRUE, symbols |-> << <<"B", "T", "C", "/", "U", "S", "D", "T">>,
                                        <<"A", "A", "P", "L">> >>],
      [present |-> TRUE, symbols |-> << <<"A", "-", "B", "/", "U", "S", "D">>,
                                        <<"E", "T", "H", "/", "U", "S", "D">> >>] }

RunLongPeriods == {2, 3}

Advance_SkipsNext(i) ==
    /\ idx' = i + 2
    /\ rpc' = IF i + 2 > Len(config.symbols) THEN "done" ELSE "fetch"

\* the for loop takes the symbol after the i-th, or ends and run returns
Advance(i) ==
    /\ idx' = i + 1
    /\ rpc' = IF i + 1 > Len(config.symbols) THEN "done" ELSE "fetch"

ShouldNotify_Always(sig) == TRUE

\* if signal != 'neutral'
ShouldNotify(sig) == sig # "neutral"

InnerExcept_KeyErrorOnly(e) == e = "KeyError"

\* except Exception, around the body of the for loop
InnerExcept(e) == e \in Exceptions

\* an exception e reaches the handlers of run while symbol idx is processed:
\* the inner one logs it and the loop goes on; what it lets through the outer
\* one logs and raises again
Propagate(e, tr) ==
    IF InnerExcept(e)
    THEN /\ trace' = Append(tr, [i |-> idx, ev |-> "caught", val |-> e])
         /\ Advance(idx)
    ELSE /\ trace' = Append(tr, [i |-> idx, ev |-> "escaped", val |-> e])
         /\ rpc' = "raised"
         /\ idx' = idx

InitRun ==
    /\ FetchInit
    /\ tpc = "input"
    /\ signal = "none"
    /\ texc = "none"
    /\ readCols = {}
    /\ df = << >>
    /\ df2 = << >>
    /\ signal2 = "none"
    /\ sma_long \in RunLongPeriods
    /\ sma_short = DefaultShort
    /\ min_price_change = 2
    /\ config \in Configs
    /\ idx = 0
    /\ rpc = "start"
    /\ trace = << >>
    /\ posts = << >>
    /\ fetched = << >>

\* run() is called: the for loop evaluates self.config['symbols']
RunStart ==
    /\ rpc = "start"
    /\ IF config.present
       THEN Advance(0)
       ELSE /\ rpc' = "raised"
            /\ idx' = idx
    /\ UNCHANGED <<config, trace, posts, fetched>>
    /\ UNCHANGED <<fetchVars, trendVars>>

\* df = self.get_historical_data(symbol); if df.empty: continue
FetchStep ==
    /\ rpc = "fetch"
    /\ \E r \in FetchResults(config.symbols[idx]) :
          LET tr == Append(trace, [i |-> idx, ev |-> "fetch", val |-> r.kind])
          IN  IF r.kind = "raised"
              THEN /\ Propagate("AttributeError", tr)
                   /\ UNCHANGED <<df, fetched>>
              ELSE /\ df' = r.frame
                   /\ fetched' = r.frame
                   /\ IF IsEmpty(r.frame)
                      THEN /\ trace' = tr
                           /\ Advance(idx)
                      ELSE /\ trace' = tr
                           /\ rpc' = "indicators"
                           /\ idx' = idx
    /\ UNCHANGED <<config, posts>>
    /\ UNCHANGED <<sma_long, sma_short, min_price_change, tpc, signal, texc, readCols,
                   df2, signal2>>
    /\ UNCHANGED fetchVars

IndicatorStep_ThenClassify ==
    /\ rpc = "indicators"
    /\ \E outs \in IndicatorOutcomes, t \in Markets :
        /\ t \in TrendIndicators => \A k \in 1..Len(IndicatorCalls) : outs[k] = "series"
        /\ \E r \in {CalculateIndicators(df, outs, t)} :
          LET tr == Append(trace, [i |-> idx, ev |-> "indicators",
                                   val |-> IF r.exc = "none" THEN "returned" ELSE "raised"])
          IN  /\ df' = r.frame
              /\ IF r.exc = "none"
                 THEN /\ trace' = tr
                      /\ rpc' = "classify"
                      /\ idx' = idx
                 ELSE Propagate(r.exc, tr)
    /\ UNCHANGED <<config, posts, fetched>>
    /\ UNCHANGED <<sma_long, sma_short, min_price_change, tpc, signal, texc, readCols,
                   df2, signal2>>
    /\ UNCHANGED fetchVars

\* df = self.calculate_indicators(df)
IndicatorStep ==
    /\ rpc = "indicators"
    /\ \E outs \in IndicatorOutcomes, t \in Markets :
        /\ t \in TrendIndicators => \A k \in 1..Len(IndicatorCalls) : outs[k] = "series"
        /\ \E r \in {CalculateIndicators(df, outs, t)} :
          LET tr == Append(trace, [i |-> idx, ev |-> "indicators",
                                   val |-> IF r.exc = "none" THEN "returned" ELSE "raised"])
          IN  /\ df' = r.frame
              /\ IF r.exc = "none"
                 THEN /\ trace' = tr
                      /\ rpc' = "status"
                      /\ idx' = idx
                 ELSE Propagate(r.exc, tr)
    /\ UNCHANGED <<config, posts, fetched>>
    /\ UNCHANGED <<sma_long, sma_short, min_price_change, tpc, signal, texc, readCols,
                   df2, signal2>>
    /\ UNCHANGED fetchVars

\* self.log_market_status(df, symbol)
StatusStep ==
    /\ rpc = "status"
    /\ \E out \in WebhookOutcomes :
        \E r \in {LogMarketStatus(df, config.symbols[idx], idx, out)} :
          LET tr == Append(trace, [i |-> idx, ev |-> "status",
                                   val |-> IF r.posts = << >> THEN "nopost" ELSE "post"])
          IN  /\ posts' = posts \o r.posts
              /\ IF r.exc = "none"
                 THEN /\ trace' = tr
                      /\ rpc' = "classify"
                      /\ idx' = idx
                 ELSE Propagate(r.exc, tr)
    /\ UNCHANGED <<config, fetched>>
    /\ UNCHANGED trendVars
    /\ UNCHANGED fetchVars

\* signal = self.check_trend(df); if signal != 'neutral': ...
ClassifyStep ==
    /\ rpc = "classify"
    /\ \E r \in {CheckTrend(df, sma_long, Num(min_price_change))} :
          LET tr == Append(trace, [i |-> idx, ev |-> "classify", val |-> r.signal])
          IN  /\ signal' = r.signal
              /\ texc' = r.exc
              /\ readCols' = r.read
              /\ IF r.exc # "none" THEN Propagate(r.exc, tr)
                 ELSE IF ~ShouldNotify(r.signal)
                 THEN /\ trace' = tr
                      /\ Advance(idx)
                 ELSE /\ trace' = tr
                      /\ rpc' = "notify"
                      /\ idx' = idx
    /\ UNCHANGED <<config, posts, fetched>>
    /\ UNCHANGED <<df, sma_long, sma_short, min_price_change, tpc, df2, signal2>>
    /\ UNCHANGED fetchVars

\* current_price = df['close'].iloc[-1]
\* self.send_discord_message(symbol, signal, current_price,
\*                           current_price - df['close'].iloc[-2])
NotifyStep ==
    /\ rpc = "notify"
    /\ IF ReadRaises(df, "close", 1) \/ ReadRaises(df, "close", 2)
       THEN /\ Propagate(IF ReadRaises(df, "close", 1) THEN "KeyError" ELSE "IndexError",
                         trace)
            /\ posts' = posts
       ELSE \E out \in WebhookOutcomes :
            \E r \in {SendDiscordMessage(config.symbols[idx], idx, signal,
                                          Iloc(df, "close", 1),
                                          FSub(Iloc(df, "close", 1), Iloc(df, "close", 2)),
                                          out)} :
              LET tr == Append(trace, [i |-> idx, ev |-> "notify", val |-> "post"])
              IN  /\ posts' = posts \o r.posts
                  /\ IF r.exc = "none"
                     THEN /\ trace' = tr
                          /\ Advance(idx)
                     ELSE Propagate(r.exc, tr)
    /\ UNCHANGED <<config, fetched>>
    /\ UNCHANGED trendVars
    /\ UNCHANGED fetchVars

NextRun ==
    \/ RunStart
    \/ FetchStep
    \/ IndicatorStep
    \/ StatusStep
    \/ ClassifyStep
    \/ NotifyStep

SpecRun == InitRun /\ [][NextRun]_vars

\* every step that run can take is taken in the end: each provider and webhook
\* call returns
SpecRunFair == SpecRun /\ WF_vars(NextRun)

----------------------------------------------------------------------------
(* calculate_indicators with the arithmetic of the averages and the bands *)

\* df['close'], as integers (the closes of the frames below are whole numbers)
Closes(frame) == [i \in 1..Len(frame) |-> frame[i].close.n]

RECURSIVE WindowSum(_, _, _)
\* the sum of the n values of cs that end at position i
WindowSum(cs, i, n) == IF n = 0 THEN 0 ELSE cs[i] + WindowSum(cs, i - 1, n - 1)

RECURSIVE WindowSquares(_, _, _)
\* the sum of the squares of the n values of cs that end at position i
WindowSquares(cs, i, n) ==
    IF n = 0 THEN 0 ELSE cs[i] * cs[i] + WindowSquares(cs, i - 1, n - 1)

\* the square root, for the squares the frames below lead to
ISqrt(q) == CHOOSE r \in 0..q : r * r <= q /\ (r + 1) * (r + 1) > q

\* ta.sma(close, length): None for a series shorter than the window, else the
\* mean of the trailing window, undefined before the first full window
Sma(cs, length) ==
    IF Len(cs) < length
    THEN [none |-> TRUE, values |-> << >>]
    ELSE [none |-> FALSE,
          values |-> [i \in 1..Len(cs) |->
                         IF i < length THEN NaN
                         ELSE [k |-> "num", n |-> WindowSum(cs, i, length), d |-> length]]]

\* mid + sign * std * (population standard deviation) over the window of
\* length bars that ends at bar i: with S the sum of the window and Q the sum
\* of its squares, the deviation is sqrt(length * Q - S * S) / length
BandValue(cs, i, length, std, sign) ==
    [k |-> "num",
     n |-> WindowSum(cs, i, length)
             + sign * std * ISqrt(length * WindowSquares(cs, i, length)
                                  - WindowSum(cs, i, length) * WindowSum(cs, i, length)),
     d |-> length]

\* the name of a column of the frame ta.bbands returns: 'BBU_20_2.0' is
\* <<"BBU", 20, 2>>
BandName(prefix, length, std) == <<prefix, length, std>>

\* ta.bbands(close, length=length, std=std): None for a series shorter than
\* the window, else a frame whose lower, middle and upper columns carry the
\* window and the width in their names
BBands(cs, length, std) ==
    IF Len(cs) < length
    THEN [none |-> TRUE, columns |-> << >>]
    ELSE [none |-> FALSE,
          columns |->
            [name \in {BandName(b, length, std) : b \in {"BBL", "BBM", "BBU"}} |->
                [i \in 1..Len(cs) |->
                    IF i < length THEN NaN
                    ELSE BandValue(cs, i, length, std,
                                   CASE name[1] = "BBL" -> -1
                                     [] name[1] = "BBM" -> 0
                                     [] name[1] = "BBU" -> 1)]]]

\* a column of n values, each v: df[c] = np.nan, df[c] = None
Broadcast(n, v) == [i \in 1..n |-> v]

\* bbands[name] if name in bbands else np.nan
BandOrNaN(bbands, name, n) ==
    IF name \in DOMAIN bbands.columns THEN bbands.columns[name] ELSE Broadcast(n, NaN)

BandsAssigned_Swapped(bbands, n) ==
    IF ~bbands.none
    THEN [bb_upper |-> BandOrNaN(bbands, BandName("BBL", DefaultShort, 2), n),
          bb_middle |-> BandOrNaN(bbands, BandName("BBM", DefaultShort, 2), n),
          bb_lower |-> BandOrNaN(bbands, BandName("BBU", DefaultShort, 2), n)]
    ELSE [bb_upper |-> Broadcast(n, NaN), bb_middle |-> Broadcast(n, NaN),
          bb_lower |-> Broadcast(n, NaN)]

\* the three columns assigned after the call of ta.bbands
BandsAssigned(bbands, n) ==
    IF ~bbands.none
    THEN [bb_upper |-> BandOrNaN(bbands, BandName("BBU", DefaultShort, 2), n),
          bb_middle |-> BandOrNaN(bbands, BandName("BBM", DefaultShort, 2), n),
          bb_lower |-> BandOrNaN(bbands, BandName("BBL", DefaultShort, 2), n)]
    ELSE [bb_upper |-> Broadcast(n, NaN), bb_middle |-> Broadcast(n, NaN),
          bb_lower |-> Broadcast(n, NaN)]

\* df[c] = ta.sma(df['close'], length=length)
SmaAssigned(c, sma, n) ==
    [x \in {c} |-> IF sma.none THEN Broadcast(n, None) ELSE sma.values]

\* calculate_indicators(df) with the averages and the bands computed; rsi and
\* macd are the library's series for a market that points up
ComputeIndicators(frame, short, long) ==
    LET n == Len(frame)
        cs == Closes(frame)
        f1 == AddColumns(frame, SmaAssigned("sma_20", Sma(cs, short), n))
        f2 == AddColumns(f1, SmaAssigned("sma_50", Sma(cs, long), n))
        f3 == AddColumns(f2, Assigned(f2, 3, "series", "up"))
        f4 == AddColumns(f3, Assigned(f3, 4, "series", "up"))
    IN  AddColumns(f4, BandsAssigned(BBands(cs, short, 2), n))

\* the windows, the lengths and the closes of the frames: the closes of a
\* frame alternate between two values (or stay at one)
ShortPeriods == {2, 4, DefaultShort}
BandLongPeriods == {4, 50}
BandLengths == {1, 2, 3, 4, 5, DefaultShort, DefaultShort + 1}
BandCloses == {100, 200, 206}

\* the frame of n bars whose closes alternate between a and b
Alternating(n, a, b) ==
    Floats(Rename([i \in 1..n |-> ProviderBar(IF i % 2 = 1 THEN a ELSE b)]))

InitBands ==
    /\ FetchInit
    /\ tpc = "input"
    /\ signal = "none"
    /\ texc = "none"
    /\ readCols = {}
    /\ sma_long \in BandLongPeriods
    /\ sma_short \in ShortPeriods
    /\ min_price_change = 2
    /\ \E n \in BandLengths, a \in BandCloses, b \in BandCloses :
          /\ df = Alternating(n, a, b)
          /\ fetched = df
    /\ df2 = << >>
    /\ signal2 = "none"
    /\ config = [present |-> FALSE, symbols |-> << >>]
    /\ idx = 0
    /\ rpc = "idle"
    /\ trace = << >>
    /\ posts = << >>

\* df = self.calculate_indicators(df)
CalculateCall ==
    /\ tpc = "input"
    /\ tpc' = "calculated"
    /\ df' = ComputeIndicators(df, sma_short, sma_long)
    /\ UNCHANGED <<sma_long, sma_short, min_price_change, signal, texc, readCols,
                   df2, signal2>>
    /\ UNCHANGED <<fetchVars, runVars>>

NextBands == CalculateCall

SpecBands == InitBands /\ [][NextBands]_vars

----------------------------------------------------------------------------
(* Claims about get_historical_data, checked under Spec *)

\* the call has ended: a frame was returned, or an exception left the method
FetchDone == pc \in {"returned", "raised"}

RECURSIVE SumBackoff(_)
\* the sum of base_delay * 2^i for i = 1..n
SumBackoff(n) == IF n = 0 THEN 0 ELSE base_delay * Pow2(n) + SumBackoff(n - 1)

\* C1: a fetch all of whose provider requests were answered with HTTP 429 has,
\* when it ends, made exactly max_retries loop iterations, each with its one
\* provider request, and has returned the EMPTY frame.
C1_AllRateLimited ==
    (FetchDone /\ nReq > 0 /\ n429 = nReq) =>
        /\ iterations = max_retries
        /\ nReq = max_retries
        /\ pc = "returned"
        /\ result = EMPTY

C1_Witness ==
    pc = "returned" /\ nReq = max_retries /\ n429 = nReq /\ iterations = max_retries

\* C2 as stated: after any provider request (ticker-info lookup included) that
\* raised an error other than HTTP 429, the fetch has returned EMPTY without
\* a backoff sleep.
C2_Original ==
    lastReq.outcome \in NonRateLimitErrors =>
        (pc = "returned" /\ result = EMPTY /\ lastSleep = 0)

\* C2 amended: an error other than HTTP 429 raised by the history request or
\* the history-metadata lookup ends the fetch at once (the call is over, so no
\* further request is made and nothing is retried), without a backoff sleep and
\* without data: EMPTY is returned, except that an HTTP error carrying no
\* response object raised by the history request leaves the method as an
\* exception. Such an error of the ticker-info lookup does not end the fetch:
\* the same attempt goes on to its history request, without a sleep; only an
\* HTTP error carrying no response object ends it there, with EMPTY.
C2_Amended ==
    /\ (lastReq.kind \in {"history", "metadata"} /\ lastReq.outcome \in NonRateLimitErrors) =>
          /\ FetchDone
          /\ result = EMPTY
          /\ lastSleep = 0
          /\ pc = "raised" => lastReq = Req("history", "httpNoResponse")
    /\ (lastReq.kind = "info" /\ lastReq.outcome \in {"httpOther", "error"}) =>
          (pc = "history" /\ lastSleep = 0)
    /\ lastReq = Req("info", "httpNoResponse") =>
          (pc = "returned" /\ result = EMPTY /\ lastSleep = 0)

C2_Witness ==
    lastReq = Req("metadata", "httpOther") /\ pc = "returned" /\ n429 > 0

\* C3: no exception leaves get_historical_data: whatever the provider answers,
\* the call never ends by raising.
C3_NeverRaises == pc # "raised"

\* C4 as stated: once a history request has returned an empty table, no further
\* history request is issued and the fetch, when it ends, returns EMPTY.
C4_Original ==
    emptyAt # 0 =>
        /\ nHist = emptyAt
        /\ FetchDone => (pc = "returned" /\ result = EMPTY)

\* C4 amended: an empty table takes the attempt to the history-metadata lookup;
\* unless that lookup answers HTTP 429 the fetch then returns EMPTY (the call is
\* over: no further history request). If it answers HTTP 429 the fetch sleeps
\* and, while retry_count < max_retries, starts another attempt, which issues
\* requests again; with the budget used up it returns EMPTY.
C4_Amended ==
    /\ (lastReq = Req("history", "table") /\ Len(provided) = 0) => pc = "metadata"
    /\ pc = "metadata" => (lastReq = Req("history", "table") /\ Len(provided) = 0)
    /\ (lastReq.kind = "metadata" /\ lastReq.outcome # "http429") =>
          (pc = "returned" /\ result = EMPTY /\ Len(provided) = 0)
    /\ lastReq = Req("metadata", "http429") =>
          /\ lastSleep > 0
          /\ retry_count < max_retries => pc \in {"info", "returned"}
          /\ retry_count >= max_retries => (pc = "returned" /\ result = EMPTY)

C4_Witness ==
    lastReq = Req("metadata", "ok") /\ pc = "returned" /\ result = EMPTY /\ nHist = 1

\* C5: the seconds slept in backoff over one fetch never exceed the sum of
\* base_delay * 2^i for i = 1..max_retries.
C5_TotalSleepBound == totalSlept <= SumBackoff(max_retries)

C5_Witness ==
    nSleeps = max_retries /\ totalSlept = SumBackoff(max_retries)

\* C6: every HTTP 429 answer is followed by exactly one sleep, of a duration in
\* [delay/2, delay] with delay = base_delay * 2^(number of 429 answers so far);
\* no other answer is followed by a sleep.
C6_OneSleepPer429 ==
    /\ nSleeps = n429
    /\ lastReq.outcome = "http429" =>
          /\ 2 * lastSleep >= base_delay * Pow2(n429)
          /\ lastSleep <= base_delay * Pow2(n429)
    /\ lastReq.outcome # "http429" => lastSleep = 0

C6_Witness ==
    lastReq.outcome = "http429" /\ n429 = 3 /\ pc = "info" /\ lastSleep = base_delay * Pow2(3)

\* C7 as stated: the seconds slept in backoff over one fetch never exceed
\* base_delay * 2^max_retries.
C7_Original == totalSlept <= base_delay * Pow2(max_retries)

\* C7 amended: the seconds slept in backoff over one fetch never exceed
\* base_delay * (2^(max_retries + 1) - 2).
C7_Amended == totalSlept <= base_delay * (Pow2(max_retries + 1) - 2)

C7_Witness ==
    FetchDone /\ totalSlept > base_delay * Pow2(max_retries)

\* C8: after a history request that returned a non-empty table the fetch has
\* returned a non-empty frame with the provider's rows, as many and in the same
\* order, Open/High/Low/Close/Volume under open/high/low/close/volume and the
\* remaining column as it was.
C8_RenamedRows ==
    (lastReq = Req("history", "table") /\ Len(provided) > 0) =>
        /\ pc = "returned"
        /\ Len(result) = Len(provided)
        /\ \A i \in 1..Len(provided) :
              result[i] = [open |-> provided[i].Open, high |-> provided[i].High,
                           low |-> provided[i].Low, close |-> provided[i].Close,
                           volume |-> provided[i].Volume,
                           Dividends |-> provided[i].Dividends]

C8_Witness ==
    /\ pc = "returned"
    /\ Len(result) = 2
    /\ result[1].close # result[2].close
    /\ n429 > 0

\* the symbol the claim expects the provider to be queried with: the base with
\* "-USD" for a symbol that ends in "/USDT", the symbol with "-" for each "/"
\* for one that ends in "/USD", the symbol itself otherwise
C25_Expected(s) ==
    IF EndsWith(s, <<"/", "U", "S", "D", "T">>)
    THEN SubSeq(s, 1, Len(s) - 5) \o <<"-", "U", "S", "D">>
    ELSE IF EndsWith(s, <<"/", "U", "S", "D">>)
    THEN [i \in 1..Len(s) |-> IF s[i] = "/" THEN "-" ELSE s[i]]
    ELSE s

\* C25: whenever a provider request has been issued, the symbol it was issued
\* with is the configured symbol rewritten: "/USDT" at the end becomes "-USD",
\* a symbol ending in "/USD" has "/" replaced by "-", any other symbol is
\* unchanged.
C25_SymbolRewritten ==
    (nReq > 0) => yf_symbol = C25_Expected(symbol)

C25_Witness ==
    /\ nReq > 0
    /\ symbol = <<"B", "T", "C", "/", "U", "S", "D", "T">>
    /\ yf_symbol = <<"B", "T", "C", "-", "U", "S", "D">>

\* the number of hyphens in a symbol
C28_Hyphens(s) == Cardinality({ i \in 1..Len(s) : s[i] = "-" })

\* C28: a call for a symbol whose provider form has two or more hyphens has
\* returned EMPTY in its first attempt, with no provider request issued and
\* no sleep.
C28_TwoHyphensEmpty ==
    (pc # "idle" /\ C28_Hyphens(ToYfSymbol(symbol)) >= 2)
        => /\ pc = "returned"
           /\ result = EMPTY
           /\ iterations = 1
           /\ retry_count = 0
           /\ nReq = 0
           /\ nHist = 0
           /\ nSleeps = 0
           /\ totalSlept = 0

C28_Witness ==
    /\ pc = "returned"
    /\ symbol = <<"A", "-", "B", "/", "U", "S", "D">>
    /\ yf_symbol = <<"A", "-", "B", "-", "U", "S", "D">>
    /\ result = EMPTY
    /\ iterations = 1
    /\ nReq = 0

\* one step of a fetch, as C27 describes it
C27_Step ==
    /\ retry_count' \in 0..max_retries
    /\ retry_count' \in {retry_count, retry_count + 1}
    /\ retry_count' = retry_count + 1 <=>
          (nReq' = nReq + 1 /\ lastReq'.outcome = "http429")
    /\ \A k \in {"info", "history", "metadata"} :
          (nReq' = nReq + 1 /\ lastReq' = Req(k, "http429")) =>
              /\ retry_count' = retry_count + 1
              /\ nSleeps' = nSleeps + 1
              /\ lastSleep' > 0
    /\ nSleeps' \in {nSleeps, nSleeps + 1}
    /\ nSleeps' = nSleeps + 1 => retry_count' = retry_count + 1
    /\ iterations' <= max_retries
    /\ nHist' <= max_retries
    /\ nSleeps' <= max_retries
    /\ nSleeps' = retry_count'

\* C27: in a fetch retry_count stays in 0..max_retries and only grows, by one
\* for each HTTP 429 answer, whichever of the three requests it answers; loop
\* iterations, history requests and sleeps each number at most max_retries;
\* every 429 answer, the last one before EMPTY included, has its one sleep.
C27_SharedBudget == [][C27_Step]_vars

C27_Witness ==
    /\ pc = "returned"
    /\ result = EMPTY
    /\ retry_count = max_retries
    /\ iterations = max_retries
    /\ nSleeps = max_retries
    /\ lastReq = Req("metadata", "http429")
    /\ lastSleep > 0
    /\ nHist = 2
    /\ nReq = max_retries + 3

\* every way get_historical_data ends under Spec is one of the results run is
\* handed in FetchResults
FetchResultsCover ==
    FetchDone =>
        \/ pc = "raised" /\ [kind |-> "raised", frame |-> EMPTY] \in FetchResults(symbol)
        \/ /\ pc = "returned"
           /\ [kind |-> IF result = EMPTY THEN "empty" ELSE "frame",
               frame |-> Floats(result)] \in FetchResults(symbol)

----------------------------------------------------------------------------
(* Claims about check_trend, checked under SpecTrend *)

\* the last bar of the frame and the close of the bar before it
Last == df[Len(df)]
PrevClose == IF Len(df) >= 2 THEN df[Len(df) - 1].close.n ELSE 0

\* the latest indicator values check_trend compares are all defined
TailDefined ==
    /\ Len(df) >= 2
    /\ \A c \in {"close", "sma_20", "sma_50", "rsi", "macd", "macd_signal"} :
          c \in DOMAIN Last /\ Last[c].k = "num"

\* (C - C_prev)/C_prev * 100 > m, in integers; over a previous close of zero the
\* quotient of a positive close is +infinity
DeltaPAbove(C, Cp, m) == IF Cp > 0 THEN 100 * (C - Cp) > m * Cp ELSE C > 0

\* (C - C_prev)/C_prev * 100 < -m, in integers
DeltaPBelow(C, Cp, m) == IF Cp > 0 THEN 100 * (C - Cp) < (0 - m) * Cp ELSE C < 0

C9_AllBullish ==
    /\ Last.close.n > Last.sma_20.n
    /\ Last.sma_20.n > Last.sma_50.n
    /\ Last.rsi.n > 50
    /\ Last.macd.n > Last.macd_signal.n
    /\ DeltaPAbove(Last.close.n, PrevClose, min_price_change)

C9_AllBearish ==
    /\ Last.close.n < Last.sma_20.n
    /\ Last.sma_20.n < Last.sma_50.n
    /\ Last.rsi.n < 50
    /\ Last.macd.n < Last.macd_signal.n
    /\ DeltaPBelow(Last.close.n, PrevClose, min_price_change)

\* C9: on a frame of at least sma_long bars whose latest indicator values are
\* all defined, check_trend returns 'bullish' exactly when C > S20 > S50,
\* R > 50, M > Msig and dP > min_price_change all hold, 'bearish' exactly when
\* C < S20 < S50, R < 50, M < Msig and dP < -min_price_change all hold, and
\* 'neutral' in every other case, ties included.
C9_Classification ==
    (tpc = "checked" /\ Len(df) >= sma_long /\ TailDefined) =>
        /\ signal = "bullish" <=> C9_AllBullish
        /\ signal = "bearish" <=> C9_AllBearish
        /\ signal = "neutral" <=> (~C9_AllBullish /\ ~C9_AllBearish)

C9_Witness ==
    /\ tpc = "checked"
    /\ Len(df) = sma_long
    /\ TailDefined
    /\ PrevClose = 100
    /\ signal = "bullish"

\* C10: on a frame of fewer than sma_long bars check_trend returns 'neutral'
\* whatever the bars hold, and reads no column.
C10_InsufficientHistory ==
    (tpc = "checked" /\ Len(df) < sma_long) =>
        (signal = "neutral" /\ readCols = {})

C10_Witness ==
    /\ tpc = "checked"
    /\ Len(df) = 2
    /\ sma_long = 3
    /\ TailDefined
    /\ C9_AllBullish
    /\ signal = "neutral"

\* the bullish comparisons that do not involve the price change
C11_OtherComparisons ==
    /\ Last.close.n > Last.sma_20.n
    /\ Last.sma_20.n > Last.sma_50.n
    /\ Last.rsi.n > 50
    /\ Last.macd.n > Last.macd_signal.n

C13_Total ==
    (tpc = "checked") =>
        (texc = "none" /\ signal \in {"bullish", "bearish", "neutral"})

\* a frame long enough, with a previous close of zero, that lacks a column
\* check_trend reads after others: the KeyError was answered with 'neutral'
C13_Witness ==
    /\ tpc = "checked"
    /\ Len(df) >= sma_long
    /\ Len(df) >= 2
    /\ "rsi" \notin DOMAIN Last
    /\ PrevClose = 0
    /\ readCols = {"close", "sma_20", "sma_50"}
    /\ texc = "none"
    /\ signal = "neutral"

----------------------------------------------------------------------------
(* Claims about two calls of check_trend, checked under SpecTrendPair *)

\* the two frames agree on their last two bars, indicator values included
SameTail ==
    /\ Len(df) >= 2
    /\ Len(df2) >= 2
    /\ df[Len(df)] = df2[Len(df2)]
    /\ df[Len(df) - 1] = df2[Len(df2) - 1]

\* C12, as stated: two frames that agree on their tail receive the same
\* classification from check_trend.
C12_Original ==
    (tpc = "checked2" /\ SameTail) => signal = signal2

\* C12: two frames that agree on their tail and on whether they hold at least
\* sma_long bars receive the same classification from two successive calls of
\* check_trend on the same object.
C12_Amended ==
    (tpc = "checked2" /\ SameTail /\ (Len(df) < sma_long <=> Len(df2) < sma_long)) =>
        signal = signal2

\* two different frames, both long enough, with one tail: both 'bullish'
C12_Witness ==
    /\ tpc = "checked2"
    /\ SameTail
    /\ Len(df) >= sma_long
    /\ Len(df2) > Len(df)
    /\ df[1] # df2[1]
    /\ signal = "bullish"
    /\ signal2 = "bullish"

----------------------------------------------------------------------------
(* Claims about run, checked under SpecRun *)

\* the positions in the trace of the events ev of the i-th symbol
Events(i, ev) == { k \in DOMAIN trace : trace[k].i = i /\ trace[k].ev = ev }

\* the positions in posts of the signal alerts and status snapshots of the i-th symbol
AlertPosts(i) == { k \in DOMAIN posts : posts[k].i = i /\ posts[k].kind = "alert" }
StatusPosts(i) == { k \in DOMAIN posts : posts[k].i = i /\ posts[k].kind = "status" }

\* check_trend classified the i-th symbol as s
Classified(i, s) == \E k \in Events(i, "classify") : trace[k].val = s

\* run is through with the i-th symbol
Processed(i) == i < idx \/ rpc = "done"

\* C14: when run is through with a symbol, a symbol classified 'bullish' or
\* 'bearish' has had exactly one signal-alert POST and a symbol classified
\* 'neutral' none; at no time has a symbol more than one signal-alert POST.
C14_OneAlertPerSignal ==
    \A i \in 1..Len(config.symbols) :
        /\ Cardinality(AlertPosts(i)) <= 1
        /\ Processed(i) =>
              /\ (Classified(i, "bullish") \/ Classified(i, "bearish")) =>
                     Cardinality(AlertPosts(i)) = 1
              /\ Classified(i, "neutral") => AlertPosts(i) = {}

\* the run is over, one symbol was bearish and got its one alert, the other
\* was neutral and got none
C14_Witness ==
    /\ rpc = "done"
    /\ Classified(1, "bearish")
    /\ Cardinality(AlertPosts(1)) = 1
    /\ Classified(2, "neutral")
    /\ AlertPosts(2) = {}

\* C15: a symbol whose fetch returned the EMPTY frame has no indicator
\* computation, no classification and no webhook POST of either kind, and
\* the loop is at a later symbol, or over.
C15_EmptySkipsSymbol ==
    \A i \in 1..Len(config.symbols) :
        (\E k \in Events(i, "fetch") : trace[k].val = "empty") =>
            /\ \A k \in DOMAIN trace : trace[k].i = i => trace[k].ev = "fetch"
            /\ AlertPosts(i) = {}
            /\ StatusPosts(i) = {}
            /\ idx > i
            /\ rpc \in {"fetch", "indicators", "status", "classify", "notify", "done"}

\* the first symbol's fetch was EMPTY and the second symbol was then
\* fetched and reported
C15_Witness ==
    /\ \E k \in Events(1, "fetch") : trace[k].val = "empty"
    /\ \E k \in Events(2, "fetch") : trace[k].val = "frame"
    /\ StatusPosts(2) # {}
    /\ posts[1].i = 2

\* C16: a call of send_discord_message makes exactly one POST, which carries
\* the symbol, the signal type check_trend gave it, a price and a change;
\* whatever the POST's outcome, no exception reaches run, and directly after
\* the call the loop is at the next symbol.
C16_OnePostPerCall ==
    \A k \in DOMAIN trace :
        trace[k].ev = "notify" =>
            /\ Cardinality(AlertPosts(trace[k].i)) = 1
            /\ \A a \in AlertPosts(trace[k].i) :
                  /\ posts[a].symbol = config.symbols[trace[k].i]
                  /\ posts[a].signal_type \in {"bullish", "bearish"}
                  /\ Classified(trace[k].i, posts[a].signal_type)
                  /\ posts[a].price.k = "num"
                  /\ posts[a].change.k = "num"
            /\ rpc # "raised"
            /\ k = Len(trace) => idx = trace[k].i + 1
            /\ k < Len(trace) => trace[k + 1].i = trace[k].i + 1

\* the first symbol's alert POST failed, it was not repeated, and the second
\* symbol was fetched
C16_Witness ==
    /\ Cardinality(AlertPosts(1)) = 1
    /\ \A a \in AlertPosts(1) : posts[a].outcome = "httpError"
    /\ Events(2, "fetch") # {}
    /\ rpc = "done"

\* C17: run raises only when the error is outside the body of the loop (the
\* configuration has no 'symbols'); an exception met while a symbol is
\* processed stops neither the loop nor run: when run has returned, every
\* configured symbol was fetched once.
C17_ContainedPerSymbol ==
    /\ rpc = "raised" => (~config.present /\ trace = << >>)
    /\ \A k \in DOMAIN trace : trace[k].ev = "caught" => idx > trace[k].i
    /\ rpc = "done" =>
          \A i \in 1..Len(config.symbols) : Cardinality(Events(i, "fetch")) = 1

\* the fetch of the first symbol raised, the second symbol was processed
\* and run returned
C17_Witness ==
    /\ rpc = "done"
    /\ \E k \in Events(1, "fetch") : trace[k].val = "raised"
    /\ Events(1, "caught") # {}
    /\ Events(2, "classify") # {}

\* the positions of the symbols fetched, in the order of the fetches
RECURSIVE FetchOrder(_)
FetchOrder(tr) ==
    IF tr = << >> THEN << >>
    ELSE IF tr[1].ev = "fetch" THEN <<tr[1].i>> \o FetchOrder(Tail(tr))
    ELSE FetchOrder(Tail(tr))

\* run has returned, having fetched every configured symbol once, in the
\* order of the configuration; or has raised for want of a list of symbols
RunEnded ==
    \/ /\ rpc = "done"
       /\ FetchOrder(trace) = [i \in 1..Len(config.symbols) |-> i]
    \/ /\ rpc = "raised"
       /\ ~config.present

\* C18: run comes to its end: it returns after one pass in which it has
\* fetched every configured symbol exactly once, in the order of the
\* configuration (or raises at once when there is no list of symbols).
C18_Terminates == <>RunEnded

\* run has returned after two symbols, fetched first and second
C18_Witness ==
    /\ rpc = "done"
    /\ Len(config.symbols) = 2
    /\ FetchOrder(trace) = <<1, 2>>
    /\ posts # << >>

\* a = b, as floats
FEq(a, b) ==
    /\ a.k = b.k
    /\ a.k \in {"num", "inf"}
    /\ IF a.k = "num" THEN a.n * b.d = b.n * a.d ELSE a.n = b.n

\* C19: the change a signal alert carries is the percentage change of the
\* latest close against the previous one, the one check_trend compared with
\* min_price_change, and the one the symbol's status snapshot carries.
C19_ChangeIsPercentage ==
    /\ (trace # << >> /\ trace[Len(trace)].ev = "notify") =>
          FEq(posts[Len(posts)].change, PriceChange(df))
    /\ \A i \in 1..Len(config.symbols) :
          \A a \in AlertPosts(i), b \in StatusPosts(i) :
              FEq(posts[a].change, posts[b].change)

\* C20: calculate_indicators hands a frame back to run whatever its library
\* calls do: the step after it is the status snapshot of the same symbol,
\* never an exception handler of run, and the frame has the rows and the
\* values the fetch returned.
C20_IndicatorsNeverRaise ==
    \A k \in DOMAIN trace :
        trace[k].ev = "indicators" =>
            /\ k < Len(trace) =>
                  (trace[k + 1].ev = "status" /\ trace[k + 1].i = trace[k].i)
            /\ k = Len(trace) =>
                  /\ rpc = "status"
                  /\ Len(df) = Len(fetched)
                  /\ \A r \in 1..Len(fetched) : \A c \in DOMAIN fetched[r] :
                        c \in DOMAIN df[r] /\ df[r][c] = fetched[r][c]

\* the rsi call raised: the frame came back with the two averages and
\* nothing more
C20_Witness ==
    /\ rpc = "status"
    /\ trace[Len(trace)].ev = "indicators"
    /\ trace[Len(trace)].val = "returned"
    /\ "sma_50" \in DOMAIN df[1]
    /\ "rsi" \notin DOMAIN df[1]

\* the event run logged last
LastEvent == trace[Len(trace)]

\* one of the five latest indicator values check_trend compares is NaN
C26_SomeUndefined ==
    \E c \in {"sma_20", "sma_50", "rsi", "macd", "macd_signal"} :
        c \in DOMAIN Last /\ Last[c].k = "nan"

\* the five latest indicator values are all there and all numbers
C26_AllDefined ==
    \A c \in {"sma_20", "sma_50", "rsi", "macd", "macd_signal"} :
        c \in DOMAIN Last /\ Last[c].k = "num"

\* C26: a frame of at least sma_long bars one of whose latest short average,
\* long average, rsi, macd and macd signal is NaN is classified 'neutral', and
\* run sends no signal alert for it: an alert is only ever sent, or about to be
\* sent, for a frame whose five latest indicator values are all defined.
C26_UndefinedIsNeutral ==
    /\ (trace # << >> /\ LastEvent.ev = "classify" /\ Len(df) >= sma_long
            /\ C26_SomeUndefined) =>
          /\ LastEvent.val = "neutral"
          /\ signal = "neutral"
          /\ rpc # "notify"
          /\ AlertPosts(LastEvent.i) = {}
    /\ rpc = "notify" => C26_AllDefined
    /\ (trace # << >> /\ LastEvent.ev = "notify") => C26_AllDefined

\* a rising market, every comparison but the one with the undefined long
\* average in favour of 'bullish': the status snapshot was posted, the symbol
\* was classified 'neutral' and no alert was sent
C26_Witness ==
    /\ trace # << >>
    /\ LastEvent.ev = "classify"
    /\ LastEvent.val = "neutral"
    /\ Len(df) >= sma_long
    /\ Len(df) >= 2
    /\ {"sma_20", "sma_50", "rsi", "macd", "macd_signal"} \subseteq DOMAIN Last
    /\ Last.sma_50.k = "nan"
    /\ Last.sma_20 = Num(204)
    /\ Last.close = Num(206)
    /\ df[Len(df) - 1].close = Num(200)
    /\ Last.rsi = Num(51)
    /\ Last.macd = Num(1)
    /\ Last.macd_signal = Num(0)
    /\ StatusPosts(LastEvent.i) # {}
    /\ AlertPosts(LastEvent.i) = {}

\* the steps run has taken for the i-th symbol, in the order it took them
RECURSIVE StepsOf(_, _)
StepsOf(tr, i) ==
    IF tr = << >> THEN << >>
    ELSE IF tr[1].i = i /\ tr[1].ev \in {"fetch", "indicators", "status", "classify", "notify"}
    THEN <<tr[1].ev>> \o StepsOf(Tail(tr), i)
    ELSE StepsOf(Tail(tr), i)

\* the steps taken for the i-th symbol are the first steps of order, in order
InOrder(i, order) ==
    LET st == StepsOf(trace, i)
    IN  /\ Len(st) <= Len(order)
        /\ \A k \in 1..Len(st) : st[k] = order[k]

\* C24 as stated: for every symbol, no webhook POST of either kind has been
\* made unless the symbol has been classified.
C24_Original ==
    \A i \in 1..Len(config.symbols) :
        (AlertPosts(i) # {} \/ StatusPosts(i) # {}) => Events(i, "classify") # {}

\* C24 amended: within one symbol's processing the steps occur in the order
\* fetch, indicator computation, status snapshot, classification, signal
\* alert. The status snapshot is posted to the webhook after the indicator
\* computation and before the classification; no signal alert for a symbol
\* is posted before that symbol has been classified 'bullish' or 'bearish'.
C24_Amended ==
    \A i \in 1..Len(config.symbols) :
        /\ InOrder(i, <<"fetch", "indicators", "status", "classify", "notify">>)
        /\ StatusPosts(i) # {} =>
              \E k \in Events(i, "status") :
                  /\ trace[k].val = "post"
                  /\ \A h \in Events(i, "classify") : k < h
                  /\ \E h \in Events(i, "indicators") : h < k
        /\ AlertPosts(i) # {} =>
              \E k \in Events(i, "notify") :
                  \E h \in Events(i, "classify") :
                      h < k /\ trace[h].val \in {"bullish", "bearish"}

\* the status snapshot of the first symbol was posted, then the symbol was
\* classified, then its alert was posted
C24_Witness ==
    /\ StepsOf(trace, 1) = <<"fetch", "indicators", "status", "classify", "notify">>
    /\ StatusPosts(1) = {1}
    /\ AlertPosts(1) = {2}

\* C29: in one run every symbol has at most one status-snapshot POST, a symbol
\* whose fetched frame has at least two bars has had its status-snapshot POST
\* once log_market_status has returned, whatever the classification will be,
\* and the POSTs of the run number at most twice the configured symbols.
C29_StatusSnapshots ==
    /\ \A i \in 1..Len(config.symbols) : Cardinality(StatusPosts(i)) <= 1
    /\ (trace # << >> /\ LastEvent.ev = "status" /\ Len(fetched) >= 2) =>
          /\ LastEvent.val = "post"
          /\ Cardinality(StatusPosts(LastEvent.i)) = 1
    /\ Len(posts) <= 2 * Len(config.symbols)

\* the columns calculate_indicators assigns
C23_Derived ==
    {"sma_20", "sma_50", "rsi", "macd", "macd_signal", "macd_hist",
     "bb_upper", "bb_middle", "bb_lower"}

\* one step of run, as C23 describes its effect on the frame
C23_Step ==
    /\ rpc = "indicators" =>
          /\ Len(df') = Len(df)
          /\ \A r \in 1..Len(df) :
                /\ DOMAIN df[r] \subseteq DOMAIN df'[r]
                /\ (DOMAIN df'[r]) \ (DOMAIN df[r]) \subseteq C23_Derived
                /\ \A c \in DOMAIN df[r] : df'[r][c] = df[r][c]
    /\ rpc \in {"status", "classify", "notify"} => df' = df

\* C23: calculate_indicators only adds derived columns: the frame it returns
\* has the bars it was given, as many and in the same order, each with its
\* open, high, low, close and volume (and any other column it had) unchanged;
\* log_market_status, check_trend and the notification leave the frame as it is.
C23_FrameEffect == [][C23_Step]_vars

\* a frame of two different bars went through the indicator computation, the
\* status snapshot and the classification: it has the derived columns, and
\* under the fetched columns what was fetched
C23_Witness ==
    /\ trace # << >>
    /\ LastEvent.ev = "classify"
    /\ Len(fetched) = 2
    /\ fetched[1].close # fetched[2].close
    /\ Len(df) = 2
    /\ \A r \in 1..2 :
          /\ DOMAIN df[r] = (DOMAIN fetched[r]) \cup C23_Derived
          /\ \A c \in {"open", "high", "low", "close", "volume"} :
                df[r][c] = fetched[r][c]

----------------------------------------------------------------------------
(* Claims about the bands, checked under SpecBands *)

\* the three bands at bar i are numbers
BandsDefined(i) ==
    \A c \in {"bb_upper", "bb_middle", "bb_lower"} :
        c \in DOMAIN df[i] /\ df[i][c].k = "num"

\* the mean of the sma_short closes fetched that end at bar i
ShortMean(i) ==
    [k |-> "num",
     n |-> WindowSum([j \in 1..Len(fetched) |-> fetched[j].close.n], i, sma_short),
     d |-> sma_short]

\* C21: whatever sma_short is configured, a frame of at least sma_short bars
\* comes back from calculate_indicators with its three bands defined at the
\* last bar and bb_middle equal to the mean of the trailing sma_short closes.
C21_BandsFollowShortPeriod ==
    (tpc = "calculated" /\ Len(df) >= sma_short) =>
        /\ BandsDefined(Len(df))
        /\ FEq(df[Len(df)].bb_middle, ShortMean(Len(df)))

\* the closes of the sma_short bars that end at bar i are all the same
FlatWindow(i) ==
    \A j \in (i - sma_short + 1)..i : fetched[j].close = fetched[i].close

\* C22: in the frame calculate_indicators returns, at every bar where the
\* bands are defined, bb_upper >= bb_middle >= bb_lower, and two of them are
\* equal only when the closes of the trailing window do not vary.
C22_BandOrdering ==
    (tpc = "calculated") =>
        \A i \in 1..Len(df) :
            BandsDefined(i) =>
                /\ FGe(df[i].bb_upper, df[i].bb_middle)
                /\ FGe(df[i].bb_middle, df[i].bb_lower)
                /\ (FEq(df[i].bb_upper, df[i].bb_middle)
                       \/ FEq(df[i].bb_middle, df[i].bb_lower)) =>
                      (i >= sma_short /\ FlatWindow(i))

\* 21 bars that alternate between 200 and 206, a window of 20: the bands of
\* the last bar are 203 + 6, 203 and 203 - 6
C22_Witness ==
    /\ tpc = "calculated"
    /\ Len(df) = DefaultShort + 1
    /\ BandsDefined(Len(df))
    /\ ~BandsDefined(DefaultShort - 1)
    /\ FEq(df[Len(df)].bb_upper, Num(209))
    /\ FEq(df[Len(df)].bb_middle, Num(203))
    /\ FEq(df[Len(df)].bb_lower, Num(197))

====
